---------------------------- MODULE Spec2Model ----------------------------
(***************************************************************************)
(* Model of homework-2/models/GeneralizedLanguageModel.py: the scorer's     *)
(* construction (with its two pickled caches), score() and run().          *)
(*                                                                         *)
(* Numbers.  A float is modelled as an exact fraction [n, d] with d >= 0.   *)
(* d > 0 is a finite value; <<1,0>> is +inf, <<-1,0>> is -inf and <<0,0>>   *)
(* is nan, the three values numpy produces on a division by zero.  The      *)
(* score, a sum of natural logarithms, is kept as the argument of one       *)
(* logarithm: score = ln(p) with p the product of the per-term mixture      *)
(* probabilities, so score = 0 exactly when p = 1.                          *)
(***************************************************************************)
EXTENDS Integers, Sequences, FiniteSets, TLC

\* ------------------------------------------------------------------ bounds
MaxQLen == 1
NNames == 2

\* ------------------------------------------------------ exact arithmetic
Abs(x) == IF x < 0 THEN -x ELSE x
Sgn(x) == IF x < 0 THEN -1 ELSE IF x = 0 THEN 0 ELSE 1

RECURSIVE GCD(_, _)
GCD(a, b) == IF b = 0 THEN a ELSE GCD(b, a % b)

\* the fraction n/d in lowest terms; d = 0 keeps only the sign of n
R(n, d) ==
    IF d = 0 THEN [n |-> Sgn(n), d |-> 0]
    ELSE LET g == GCD(Abs(n), Abs(d))
         IN  [n |-> (Sgn(d) * n) \div g, d |-> Abs(d) \div g]

Num(i) == [n |-> i, d |-> 1]
Zero == Num(0)
One == Num(1)
PInf == [n |-> 1, d |-> 0]
NInf == [n |-> -1, d |-> 0]
NaN == [n |-> 0, d |-> 0]

IsFinite(x) == x.d > 0
IsNaN(x) == x.d = 0 /\ x.n = 0

\* IEEE-754 addition, multiplication and division (numpy: a division by
\* zero yields inf or nan and a warning, never an exception)
Add(x, y) ==
    IF x.d = 0 /\ y.d = 0 THEN (IF x = y THEN x ELSE NaN)
    ELSE R(x.n * y.d + y.n * x.d, x.d * y.d)

Mul(x, y) == R(x.n * y.n, x.d * y.d)

Recip(y) ==
    IF y.d = 0 THEN (IF y.n = 0 THEN NaN ELSE Zero)
    ELSE IF y.n = 0 THEN PInf
    ELSE R(Sgn(y.n) * y.d, Abs(y.n))

Div(x, y) == Mul(x, Recip(y))

Sub(x, y) == Add(x, Mul(Num(-1), y))

\* x <= 0 for the values math.log rejects (nan is not rejected)
NonPositive(x) == ~IsNaN(x) /\ x.n <= 0

Less(x, y) == x.n * y.d < y.n * x.d

\* ------------------------------------------------------------ the corpus
\* index.get_dictionary(): term identifier <-> token.  Identifier 0 is the
\* padding of a stopped position and has no token.
Id2Token == <<"a", "b", "c", "e", "f">>
Terms == DOMAIN Id2Token
Tokens == {Id2Token[t] : t \in Terms}
Token2Id(tok) == CHOOSE t \in Terms : Id2Token[t] = tok

\* index.document(int_doc_id) -> (ext_doc_id, doc)
DocStream == << <<1>>, <<1, 1, 1>>, <<2, 3, 0, 3>>, <<4, 5>>, <<2, 1, 1>> >>
ExtId == <<"D1", "D2", "D3", "D4", "D5">>
Docs == DOMAIN DocStream

\* self.queries: query identifier -> tuple of term identifiers
Queries == [qid \in {1, 2} |-> IF qid = 1 THEN <<1>> ELSE <<2, 3>>]
QueryIds == DOMAIN Queries

\* gensim vectors, two dimensions and integer norms so cosines are fractions
Vec == [a |-> <<5, 0>>, b |-> <<0, 5>>, c |-> <<3, 4>>, e |-> <<-4, 3>>,
        f |-> <<4, 3>>]

Dot(u, v) == u[1] * v[1] + u[2] * v[2]
ISqrt(x) == CHOOSE r \in 0..x : r * r = x
Norm(u) == ISqrt(Dot(u, u))

\* doc_arr[doc_arr != 0]
RECURSIVE FilterDoc(_)
FilterDoc(doc) ==
    IF doc = <<>> THEN <<>>
    ELSE IF Head(doc) = 0 THEN FilterDoc(Tail(doc))
    ELSE <<Head(doc)>> \o FilterDoc(Tail(doc))

\* np.sum(filter_doc_arr == term_id)
RECURSIVE Count(_, _)
Count(arr, t) ==
    IF arr = <<>> THEN 0
    ELSE (IF Head(arr) = t THEN 1 ELSE 0) + Count(Tail(arr), t)

RECURSIVE SumSeq(_)
SumSeq(s) == IF s = <<>> THEN Zero ELSE Add(Head(s), SumSeq(Tail(s)))

RECURSIVE SumInts(_)
SumInts(S) ==
    IF S = {} THEN 0
    ELSE LET x == CHOOSE y \in S : TRUE IN x + SumInts(S \ {x})

QueryTerms == UNION {{Queries[q][i] : i \in DOMAIN Queries[q]} : q \in QueryIds}

\* the tables the constructor is handed: frequencies of the query terms per
\* document, their collection totals, and the number of retained terms
InvertedIndex0 ==
    LET has(t) == {d \in Docs : Count(DocStream[d], t) > 0}
    IN  [t \in {u \in QueryTerms : has(u) # {}} |->
            [d \in has(t) |-> Count(DocStream[d], t)]]

RECURSIVE SumValues(_)
SumValues(f) ==
    IF DOMAIN f = {} THEN 0
    ELSE LET x == CHOOSE y \in DOMAIN f : TRUE
         IN  f[x] + SumValues([y \in DOMAIN f \ {x} |-> f[y]])

ColFreq0 == [t \in DOMAIN InvertedIndex0 |-> SumValues(InvertedIndex0[t])]

DocLen == [d \in Docs |-> Len(FilterDoc(DocStream[d]))]

\* ------------------------------------------------------------ embeddings
\* cos_sim(v1, v2) = dot(v1, v2) / (norm(v1) * norm(v2))
cos_sim(v1, v2) == Div(Num(Dot(v1, v2)), Num(Norm(v1) * Norm(v2)))

\* word2vec.most_similar(token, topn): the topn other tokens by decreasing
\* cosine similarity (equal similarities in vocabulary order)
MostSimilarIn(tok, rest) ==
    LET sim == [x \in rest |-> cos_sim(Vec[tok], Vec[x])]
    IN  CHOOSE x \in rest :
            \A y \in rest \ {x} :
                \/ Less(sim[y], sim[x])
                \/ sim[y] = sim[x] /\ Token2Id(x) < Token2Id(y)

RECURSIVE most_similar_from(_, _, _)
most_similar_next(tok, topn, rest, best) ==
    <<best>> \o most_similar_from(tok, topn - 1, rest \ {best})

most_similar_from(tok, topn, rest) ==
    IF topn = 0 \/ rest = {} THEN <<>>
    ELSE most_similar_next(tok, topn, rest, MostSimilarIn(tok, rest))

most_similar(tok, topn) == most_similar_from(tok, topn, Tokens \ {tok})

\* --------------------------------------------------------- cache builders
\* a candidate collection (doc_col) is a sequence of (query id, document
\* ids) items, in the dictionary's iteration order
UniqueIds(dc) ==
    UNION {{dc[i].docs[j] : j \in DOMAIN dc[i].docs} : i \in DOMAIN dc}

RECURSIVE SumFn(_)
SumFn(f) ==
    IF DOMAIN f = {} THEN Zero
    ELSE LET x == CHOOSE y \in DOMAIN f : TRUE
         IN  Add(f[x], SumFn([y \in DOMAIN f \ {x} |-> f[y]]))

\* cos_sim[1:, 1:][np.triu_indices(n - 1, 1)]: the pairs of positions
\* a < b of the retained stream, the first position left out
UpperPairs(n) == {p \in (2..n) \X (2..n) : p[1] < p[2]}

DocSimSumOf(d) ==
    LET arr == FilterDoc(DocStream[d])
        vec(i) == Vec[Id2Token[arr[i]]]
    IN  SumFn([p \in UpperPairs(Len(arr)) |->
                  Div(Div(Num(Dot(vec(p[1]), vec(p[2]))), Num(Norm(vec(p[1])))),
                      Num(Norm(vec(p[2]))))])

compute_doc_sim_sum(dc) == [d \in UniqueIds(dc) |-> DocSimSumOf(d)]

\* the (neighbours, sums) pair, or the KeyError of self.queries[query_id]
NTopN == 3

DcQueryIds(dc) == {dc[i].q : i \in DOMAIN dc}

DcTokens(dc) ==
    UNION {{Id2Token[Queries[q][i]] : i \in DOMAIN Queries[q]} :
              q \in DcQueryIds(dc) \cap QueryIds}

RECURSIVE SumCos(_, _)
SumCos(tok, nbs) ==
    IF nbs = <<>> THEN Zero
    ELSE Add(cos_sim(Vec[tok], Vec[Head(nbs)]), SumCos(tok, Tail(nbs)))

compute_col_nt(dc, n_terms) ==
    IF ~(DcQueryIds(dc) \subseteq QueryIds)
    THEN [err |-> "KeyError"]
    ELSE [err |-> "none",
          col_Nt |-> [tok \in DcTokens(dc) |-> most_similar(tok, n_terms)],
          sum_nT |-> [tok \in DcTokens(dc) |->
                         SumCos(tok, most_similar(tok, n_terms))]]

\* ------------------------------------------------------------- the scorer
\* a read d[key] of a collections.defaultdict: a missing key is inserted
\* with the default value
Touch(dict, key, default) ==
    IF key \in DOMAIN dict THEN dict ELSE dict @@ (key :> default)

EmptyDict == [x \in {} |-> 0]

\* self.inverted_index[query_term_id].get(int_doc_id, 0), on the index as it
\* is after the read
DocTermFreq(inv, t, d) == IF d \in DOMAIN inv[t] THEN inv[t][d] ELSE 0

\* doc_term_freq / doc_len
compute_term_likelihood(inv, query_term_id, int_doc_id) ==
    Div(Num(DocTermFreq(inv, query_term_id, int_doc_id)), Num(DocLen[int_doc_id]))

\* col_term_freq / self.col_size, on the table as it is after the read
compute_bg_likelihood(sc, cf, query_term_id) ==
    Div(Num(cf[query_term_id]), Num(sc.col_size))

\* one row per retained position of the document: similarity of the term at
\* that position to the query term, times the count of that term in the
\* document, over doc_sim_sum * doc_len; then np.sum of the rows
DocTransformRows(sc, query_term_id, int_doc_id) ==
    LET arr == FilterDoc(DocStream[int_doc_id])
        query_vec == Vec[Id2Token[query_term_id]]
        row(idx) ==
            LET v == Vec[Id2Token[arr[idx]]]
                similarity == Div(Div(Num(Dot(v, query_vec)), Num(Norm(v))),
                                  Num(Norm(query_vec)))
                term_frequency == Num(Count(arr, arr[idx]))
            IN  Div(Mul(similarity, term_frequency),
                    Mul(sc.doc_sim_sum[int_doc_id], Num(DocLen[int_doc_id])))
    IN  [idx \in DOMAIN arr |-> row(idx)]

compute_doc_transform(sc, query_term_id, int_doc_id) ==
    SumSeq(DocTransformRows(sc, query_term_id, int_doc_id))

\* the loop over the cached neighbours; a float division by zero raises
RECURSIVE ColLoop(_, _, _, _, _)
ColLoop(sc, cf, tok, nbs, acc) ==
    IF nbs = <<>> THEN [err |-> "none", val |-> acc, cf |-> cf]
    ELSE IF sc.sum_nT[tok] = Zero
    THEN [err |-> "ZeroDivisionError", val |-> acc, cf |-> cf]
    ELSE LET similarity == cos_sim(Vec[tok], Vec[Head(nbs)])
             cf1 == Touch(cf, Token2Id(Head(nbs)), 0)
         IN  IF sc.col_size = 0
             THEN [err |-> "ZeroDivisionError", val |-> acc, cf |-> cf1]
             ELSE ColLoop(sc, cf1, tok, Tail(nbs),
                          Add(acc, Div(Mul(Div(similarity, sc.sum_nT[tok]),
                                           Num(cf1[Token2Id(Head(nbs))])),
                                       Num(sc.col_size))))

compute_col_transform(sc, cf, query_term_id) ==
    ColLoop(sc, cf, Id2Token[query_term_id],
            sc.col_Nt[Id2Token[query_term_id]], Zero)

\* lamb * term + alph * doc_transform + beta * col_transform
\*   + (1 - lamb - alph - beta) * background
Mixture(sc, tl, dt, ct, bg) ==
    Add(Add(Add(Mul(sc.lamb, tl), Mul(sc.alph, dt)), Mul(sc.beta, ct)),
        Mul(Sub(Sub(Sub(One, sc.lamb), sc.alph), sc.beta), bg))

\* math.log of the mixture of one query term
TermLog(inv1, cf2, t, mix) ==
    IF NonPositive(mix)
    THEN [err |-> "ValueError", inv |-> inv1, cf |-> cf2, term |-> t]
    ELSE [err |-> "none", inv |-> inv1, cf |-> cf2, term |-> t, val |-> mix]

\* the background likelihood and the mixture, given the outcome ct of
\* compute_col_transform
TermMix(sc, inv1, t, d, ct, cf2) ==
    IF ct.err # "none"
    THEN [err |-> ct.err, inv |-> inv1, cf |-> ct.cf, term |-> t]
    ELSE IF sc.col_size = 0
    THEN [err |-> "ZeroDivisionError", inv |-> inv1, cf |-> cf2, term |-> t]
    ELSE TermLog(inv1, cf2, t,
                 Mixture(sc, compute_term_likelihood(inv1, t, d),
                         compute_doc_transform(sc, t, d), ct.val,
                         compute_bg_likelihood(sc, cf2, t)))

TermCol(sc, inv1, t, d, ct) == TermMix(sc, inv1, t, d, ct, Touch(ct.cf, t, 0))

\* one iteration of the loop of score(), inv1 the inverted index after the
\* read of compute_term_likelihood: the four components in the order Python
\* evaluates them (and raises in them), then the logarithm
TermComponents(sc, inv1, cf, t, d) ==
    IF DocLen[d] = 0
    THEN [err |-> "ZeroDivisionError", inv |-> inv1, cf |-> cf, term |-> t]
    ELSE IF d \notin DOMAIN sc.doc_sim_sum \/ Id2Token[t] \notin DOMAIN sc.col_Nt
    THEN [err |-> "KeyError", inv |-> inv1, cf |-> cf, term |-> t]
    ELSE TermCol(sc, inv1, t, d, compute_col_transform(sc, cf, t))

TermStep(sc, inv, cf, t, d) ==
    TermComponents(sc, Touch(inv, t, EmptyDict), cf, t, d)

\* score(int_doc_id, query): [err, p, inv, cf] with the score ln(p), and the
\* two defaultdicts as the call leaves them
RECURSIVE ScoreLoop(_, _, _, _, _, _)
ScoreNext(sc, d, query, p, r) ==
    IF r.err # "none"
    THEN [err |-> r.err, p |-> p, inv |-> r.inv, cf |-> r.cf, term |-> r.term]
    ELSE ScoreLoop(sc, r.inv, r.cf, d, Tail(query), Mul(p, r.val))

ScoreLoop(sc, inv, cf, d, query, p) ==
    IF query = <<>> THEN [err |-> "none", p |-> p, inv |-> inv, cf |-> cf, term |-> 0]
    ELSE ScoreNext(sc, d, query, p, TermStep(sc, inv, cf, Head(query), d))

score(sc, inv, cf, int_doc_id, query) ==
    ScoreLoop(sc, inv, cf, int_doc_id, query, One)

\* ---------------------------------------------------------------- run()
RECURSIVE TouchAll(_, _)
TouchAll(inv, query) ==
    IF query = <<>> THEN inv
    ELSE TouchAll(Touch(inv, Head(query), EmptyDict), Tail(query))

\* if scores[query_id][ext_doc_id] != 0: data[query_id].append(...), sv the
\* value read from scores (0, the default, for a missing key)
Record(st, qid, d, sv) ==
    IF sv # One
    THEN [st EXCEPT !.data =
            IF qid \in DOMAIN @
            THEN [@ EXCEPT ![qid] = Append(@, <<sv, ExtId[d]>>)]
            ELSE @ @@ (qid :> << <<sv, ExtId[d]>> >>)]
    ELSE st

ReadScore(scores, key) == IF key \in DOMAIN scores THEN scores[key] ELSE One

\* scores[query_id][ext_doc_id] = self.score(int_doc_id, query), r the
\* outcome of the call, and the test that follows it
Scored(st, qid, d, r) ==
    IF r.err # "none"
    THEN [st EXCEPT !.err = r.err, !.inv = r.inv, !.cf = r.cf,
                    !.calls = Append(@, [q |-> qid, d |-> d, err |-> r.err,
                                         p |-> r.p])]
    ELSE Record([st EXCEPT !.inv = r.inv, !.cf = r.cf,
                           !.calls = Append(@, [q |-> qid, d |-> d,
                                                err |-> r.err, p |-> r.p]),
                           !.scores = [k \in DOMAIN @ \cup {<<qid, ExtId[d]>>} |->
                                          IF k = <<qid, ExtId[d]>> THEN r.p
                                          ELSE @[k]]],
                qid, d, r.p)

\* variant of PairStep that scores every candidate, whether or not the
\* inverted index has an entry for it
PairStepNoIndexTest(sc, st, qid, query, d) ==
    Scored(st, qid, d, score(sc, TouchAll(st.inv, query), st.cf, d, query))

\* the body of the innermost loop for one (query, document) pair, inv1 the
\* inverted index after the reads of the membership test
PairTest(sc, st, qid, query, d, inv1) ==
    IF \E i \in DOMAIN query : d \in DOMAIN inv1[query[i]]
    THEN Scored(st, qid, d, score(sc, inv1, st.cf, d, query))
    ELSE Record([st EXCEPT !.inv = inv1], qid, d,
                ReadScore(st.scores, <<qid, ExtId[d]>>))

\* st holds the locals of run(): scores and data (both defaultdicts), the
\* calls made to score(), and the exception that ended the loop, if any
PairStep(sc, st, qid, query, d) ==
    PairTest(sc, st, qid, query, d, TouchAll(st.inv, query))

\* for int_doc_id in int_doc_ids
RECURSIVE DocLoop(_, _, _, _, _)
DocLoop(sc, st, qid, query, docs) ==
    IF docs = <<>> \/ st.err # "none" THEN st
    ELSE DocLoop(sc, PairStep(sc, st, qid, query, Head(docs)), qid, query,
                 Tail(docs))

\* for query_id, int_doc_ids in doc_col.items()
RECURSIVE ColLoopRun(_, _, _)
ColLoopRun(sc, st, dc) ==
    IF dc = <<>> \/ st.err # "none" THEN st
    ELSE IF Head(dc).q \notin QueryIds THEN [st EXCEPT !.err = "KeyError"]
    ELSE ColLoopRun(sc,
                    DocLoop(sc, st, Head(dc).q, Queries[Head(dc).q], Head(dc).docs),
                    Tail(dc))

\* doc_col is None: every document of the index, every query
RECURSIVE QueryLoop(_, _, _, _)
QueryLoop(sc, st, d, qids) ==
    IF qids = {} \/ st.err # "none" THEN st
    ELSE LET qid == CHOOSE x \in qids : \A y \in qids : x <= y
         IN  QueryLoop(sc, PairStep(sc, st, qid, Queries[qid], d), d,
                       qids \ {qid})

RECURSIVE AllLoop(_, _, _)
AllLoop(sc, st, d) ==
    IF d \notin Docs \/ st.err # "none" THEN st
    ELSE AllLoop(sc, QueryLoop(sc, st, d, QueryIds), d + 1)

RunLocals(inv, cf) ==
    [inv |-> inv, cf |-> cf, err |-> "none", calls |-> <<>>,
     data |-> EmptyDict, scores |-> EmptyDict]

\* the loops of run() for a doc_col argument: <<>> is None, <<dc>> is dc
RunLoops(sc, inv, cf, dcopt) ==
    IF dcopt = <<>> THEN AllLoop(sc, RunLocals(inv, cf), 1)
    ELSE ColLoopRun(sc, RunLocals(inv, cf), dcopt[1])

\* ------------------------------------------------------------ the inputs
ModelNames == 1..NNames

DcA == << [q |-> 1, docs |-> <<1, 2, 4>>], [q |-> 2, docs |-> <<3, 4>>] >>
DcB == << [q |-> 2, docs |-> <<3, 5, 3>>] >>
DcUnknownQuery == << [q |-> 9, docs |-> <<1>>] >>
DocCols == {DcA, DcB, DcUnknownQuery}
DocColArgs == {<<>>} \cup {<<dc>> : dc \in DocCols}

Weights ==
    {[lamb |-> One, alph |-> Zero, beta |-> Zero],
     [lamb |-> R(1, 4), alph |-> R(1, 4), beta |-> R(1, 4)]}

RECURSIVE Tuples(_)
Tuples(n) ==
    IF n = 0 THEN {<<>>}
    ELSE LET shorter == Tuples(n - 1)
         IN  shorter \cup {Append(q, t) : q \in {x \in shorter : Len(x) = n - 1},
                                          t \in Terms}

ScoreQueries == Tuples(MaxQLen) \cup {Queries[q] : q \in QueryIds}

\* -------------------------------------------------------------- the state
VARIABLES
    inverted_index,   \* Helper.inverted_index, shared with the scorer
    col_freq,         \* Helper.collection_frequencies, shared with the scorer
    doc_sim_file,     \* ../pickles/doc_sim_sums.pkl: <<>> or <<content>>
    col_nt_file,      \* ../pickles/col_Nt.pkl: <<>> or <<content>>
    run_files,        \* ../retrievals/<model_name>.run: <<>> or <<data>>
    scorer,           \* the last scorer constructed: <<>> or <<object>>
    last              \* the last operation, its arguments and its outcome

vars == <<inverted_index, col_freq, doc_sim_file, col_nt_file, run_files,
          scorer, last>>

Init ==
    /\ inverted_index = InvertedIndex0
    /\ col_freq = ColFreq0
    /\ doc_sim_file = <<>>
    /\ col_nt_file = <<>>
    /\ run_files = [m \in ModelNames |-> <<>>]
    /\ scorer = <<>>
    /\ last = [op |-> "init"]

\* variant of Construct that recomputes and rewrites both caches on every
\* construction, whether or not their files exist
ConstructAlwaysCompute(w, doc_col) ==
    \E nt \in {compute_col_nt(doc_col, NTopN)} :
        /\ doc_sim_file' = <<compute_doc_sim_sum(doc_col)>>
        /\ col_nt_file' = IF nt.err # "none" THEN col_nt_file
                          ELSE <<[col_Nt |-> nt.col_Nt, sum_nT |-> nt.sum_nT]>>
        /\ scorer' = IF nt.err # "none" THEN scorer
                     ELSE <<[doc_col |-> doc_col,
                             col_size |-> SumInts(DOMAIN col_freq),
                             lamb |-> w.lamb, alph |-> w.alph, beta |-> w.beta,
                             doc_sim_sum |-> compute_doc_sim_sum(doc_col),
                             col_Nt |-> nt.col_Nt, sum_nT |-> nt.sum_nT]>>
        /\ last' = [op |-> "construct", doc_col |-> doc_col, err |-> nt.err,
                    computed |-> <<doc_sim_file = <<>>,
                                   col_nt_file = <<>> /\ nt.err = "none">>]
        /\ UNCHANGED <<inverted_index, col_freq, run_files>>

\* GeneralizedLanguageModel(..., lamb, alph, beta, doc_col): each cache is
\* loaded when its file exists, else computed and written; the KeyError of
\* compute_col_nt leaves the first file written and no object built
Construct(w, doc_col) ==
    LET load1 == doc_sim_file # <<>>
        load2 == col_nt_file # <<>>
    IN  \E dss \in {IF load1 THEN doc_sim_file[1] ELSE compute_doc_sim_sum(doc_col)},
           nt \in {IF load2
                   THEN [err |-> "none", col_Nt |-> col_nt_file[1].col_Nt,
                         sum_nT |-> col_nt_file[1].sum_nT]
                   ELSE compute_col_nt(doc_col, NTopN)} :
            /\ doc_sim_file' = IF load1 THEN doc_sim_file ELSE <<dss>>
            /\ col_nt_file' = IF load2 \/ nt.err # "none" THEN col_nt_file
                              ELSE <<[col_Nt |-> nt.col_Nt, sum_nT |-> nt.sum_nT]>>
            /\ scorer' = IF nt.err # "none" THEN scorer
                         ELSE <<[doc_col |-> doc_col,
                                 col_size |-> SumInts(DOMAIN col_freq),
                                 lamb |-> w.lamb, alph |-> w.alph, beta |-> w.beta,
                                 doc_sim_sum |-> dss, col_Nt |-> nt.col_Nt,
                                 sum_nT |-> nt.sum_nT]>>
            /\ last' = [op |-> "construct", doc_col |-> doc_col, err |-> nt.err,
                        computed |-> <<~load1, ~load2 /\ nt.err = "none">>]
            /\ UNCHANGED <<inverted_index, col_freq, run_files>>

\* scorer.score(int_doc_id, query)
Score(d, query) ==
    /\ scorer # <<>>
    /\ \E r \in {score(scorer[1], inverted_index, col_freq, d, query)} :
           /\ inverted_index' = r.inv
           /\ col_freq' = r.cf
           /\ last' = [op |-> "score", d |-> d, query |-> query, err |-> r.err,
                       p |-> r.p, term |-> r.term]
    /\ UNCHANGED <<doc_sim_file, col_nt_file, run_files, scorer>>

\* variant of Run without the os.path.exists test
RunNoExistsTest(model_name, dcopt) ==
    /\ scorer # <<>>
    /\ \E st \in {RunLoops(scorer[1], inverted_index, col_freq, dcopt)} :
           /\ inverted_index' = st.inv
           /\ col_freq' = st.cf
           /\ run_files' = IF st.err = "none"
                           THEN [run_files EXCEPT ![model_name] = <<st.data>>]
                           ELSE run_files
           /\ last' = [op |-> "run", model_name |-> model_name,
                       doc_col |-> dcopt,
                       status |-> IF st.err = "none" THEN "written" ELSE "raised",
                       err |-> st.err, calls |-> st.calls, data |-> st.data]
    /\ UNCHANGED <<doc_sim_file, col_nt_file, scorer>>

\* scorer.run(model_name, doc_col)
Run(model_name, dcopt) ==
    /\ scorer # <<>>
    /\ IF run_files[model_name] # <<>>
       THEN /\ last' = [op |-> "run", model_name |-> model_name,
                        doc_col |-> dcopt, status |-> "exists", err |-> "none",
                        calls |-> <<>>, data |-> EmptyDict]
            /\ UNCHANGED <<inverted_index, col_freq, run_files>>
       ELSE \E st \in {RunLoops(scorer[1], inverted_index, col_freq, dcopt)} :
                /\ inverted_index' = st.inv
                /\ col_freq' = st.cf
                /\ run_files' = IF st.err = "none"
                                THEN [run_files EXCEPT ![model_name] = <<st.data>>]
                                ELSE run_files
                /\ last' = [op |-> "run", model_name |-> model_name,
                            doc_col |-> dcopt,
                            status |-> IF st.err = "none" THEN "written"
                                       ELSE "raised",
                            err |-> st.err, calls |-> st.calls,
                            data |-> st.data]
    /\ UNCHANGED <<doc_sim_file, col_nt_file, scorer>>

Next ==
    \/ \E w \in Weights, doc_col \in DocCols : Construct(w, doc_col)
    \/ \E d \in Docs, query \in ScoreQueries : Score(d, query)
    \/ \E m \in ModelNames, dcopt \in DocColArgs : Run(m, dcopt)

Spec == Init /\ [][Next]_vars

\* Spec restricted to two of the three operations: the state space of each
\* is small enough to be searched exhaustively with the recorded outcome of
\* every call.

\* constructions and direct calls of score()
NextScore ==
    \/ \E w \in Weights, doc_col \in DocCols : Construct(w, doc_col)
    \/ \E d \in Docs, query \in ScoreQueries : Score(d, query)

SpecScore == Init /\ [][NextScore]_vars

\* constructions and runs
NextRun ==
    \/ \E w \in Weights, doc_col \in DocCols : Construct(w, doc_col)
    \/ \E m \in ModelNames, dcopt \in DocColArgs : Run(m, dcopt)

SpecRun == Init /\ [][NextRun]_vars

\* ============================================================ properties
\* some term of query qid has an inverted-index entry for document d
HasEntry(qid, d) ==
    \E i \in DOMAIN Queries[qid] :
        /\ Queries[qid][i] \in DOMAIN inverted_index
        /\ d \in DOMAIN inverted_index[Queries[qid][i]]

\* the (score, external id) pairs of the calls for qid that returned a score
\* other than zero, in call order
RECURSIVE NonZeroScores(_, _)
NonZeroScores(calls, qid) ==
    IF calls = <<>> THEN <<>>
    ELSE (IF Head(calls).q = qid /\ Head(calls).err = "none" /\ Head(calls).p # One
          THEN << <<Head(calls).p, ExtId[Head(calls).d]>> >> ELSE <<>>)
         \o NonZeroScores(Tail(calls), qid)

\* the (query, document) pairs of a candidate collection, in loop order
RECURSIVE CandidatePairs(_)
CandidatePairs(dc) ==
    IF dc = <<>> THEN <<>>
    ELSE [j \in DOMAIN Head(dc).docs |-> <<Head(dc).q, Head(dc).docs[j]>>]
         \o CandidatePairs(Tail(dc))

RECURSIVE WithEntry(_)
WithEntry(pairs) ==
    IF pairs = <<>> THEN <<>>
    ELSE (IF HasEntry(Head(pairs)[1], Head(pairs)[2]) THEN <<Head(pairs)>> ELSE <<>>)
         \o WithEntry(Tail(pairs))

LastRunSupplied == last.op = "run" /\ last.doc_col # <<>> /\ last.status # "exists"

\* C1: a run whose output file exists scores nothing and changes nothing,
\* and an output file, once written, is never changed by a later run.
C1_RunIsNoOpWhenOutputExists ==
    [][\A m \in ModelNames :
          run_files[m] # <<>> =>
              /\ run_files'[m] = run_files[m]
              /\ (last'.op = "run" /\ last'.model_name = m) =>
                     /\ last'.status = "exists"
                     /\ last'.calls = <<>>
                     /\ inverted_index' = inverted_index
                     /\ col_freq' = col_freq]_vars

\* a run that found the output of an earlier, completed run with a
\* non-empty result
C1_Witness ==
    /\ last.op = "run"
    /\ last.status = "exists"
    /\ DOMAIN run_files[last.model_name][1] # {}

\* C2: in a run over a supplied candidate pool, score() is called on a pair
\* only if the inverted index has an entry of a query term for the document,
\* the result list of each query holds exactly the scored pairs whose score
\* is not zero, and a run that completes has scored every pair with an entry.
C2_ScoredOnlyWithEntryRecordedIffNonZero ==
    LastRunSupplied =>
        /\ \A i \in DOMAIN last.calls : HasEntry(last.calls[i].q, last.calls[i].d)
        /\ DOMAIN last.data =
               {qid \in QueryIds : NonZeroScores(last.calls, qid) # <<>>}
        /\ \A qid \in DOMAIN last.data :
               last.data[qid] = NonZeroScores(last.calls, qid)
        /\ last.status = "written" =>
               [i \in DOMAIN last.calls |-> <<last.calls[i].q, last.calls[i].d>>]
                   = WithEntry(CandidatePairs(last.doc_col[1]))

\* a completed run with a recorded pair, a scored pair of score zero, and a
\* candidate without any query term
C2_Witness ==
    /\ LastRunSupplied
    /\ last.status = "written"
    /\ \E i \in DOMAIN last.calls : last.calls[i].p = One
    /\ \E i \in DOMAIN last.calls : last.calls[i].p # One
    /\ \E i \in DOMAIN CandidatePairs(last.doc_col[1]) :
           ~HasEntry(CandidatePairs(last.doc_col[1])[i][1],
                     CandidatePairs(last.doc_col[1])[i][2])

\* C3: a pair whose mixture probability is not positive fails alone: the
\* run still completes and writes its output.
C3_FailedPairDoesNotAbortRun ==
    (last.op = "run" /\ \E i \in DOMAIN last.calls : last.calls[i].err = "ValueError")
        => last.status = "written"

\* C4: each cache file is written once and never rewritten; a construction
\* computes a cache only when its file is missing, and the caches of a
\* constructed scorer are those of the files.
C4_CachesAreWriteOnce ==
    [][/\ doc_sim_file # <<>> => doc_sim_file' = doc_sim_file
       /\ col_nt_file # <<>> => col_nt_file' = col_nt_file
       /\ scorer' # <<>> =>
              /\ doc_sim_file' = <<scorer'[1].doc_sim_sum>>
              /\ col_nt_file' # <<>>
              /\ col_nt_file'[1].col_Nt = scorer'[1].col_Nt
              /\ col_nt_file'[1].sum_nT = scorer'[1].sum_nT
       /\ last'.op = "construct" =>
              /\ last'.computed[1] <=> doc_sim_file = <<>>
              /\ last'.computed[2] => col_nt_file = <<>>
              /\ (last'.err = "none" /\ col_nt_file = <<>>) => last'.computed[2]
              /\ last'.computed[1] =>
                     doc_sim_file' = <<compute_doc_sim_sum(last'.doc_col)>>
              /\ last'.computed[2] =>
                     /\ col_nt_file'[1].col_Nt =
                            compute_col_nt(last'.doc_col, NTopN).col_Nt
                     /\ col_nt_file'[1].sum_nT =
                            compute_col_nt(last'.doc_col, NTopN).sum_nT]_vars

\* a construction that loaded both caches, built by an earlier construction
\* for another candidate collection
C4_Witness ==
    /\ last.op = "construct"
    /\ last.err = "none"
    /\ last.computed = <<FALSE, FALSE>>
    /\ scorer[1].doc_col = last.doc_col
    /\ scorer[1].doc_sim_sum # compute_doc_sim_sum(last.doc_col)
    /\ doc_sim_file = <<scorer[1].doc_sim_sum>>

\* C5: the collection size of a scorer is the sum of the collection
\* frequency values.
C5_ColSizeIsSumOfFrequencies ==
    scorer # <<>> => scorer[1].col_size = SumValues(col_freq)

\* P_term(t, d) = raw frequency / document length
TermProb(t, d) ==
    Div(Num(IF t \in DOMAIN inverted_index /\ d \in DOMAIN inverted_index[t]
            THEN inverted_index[t][d] ELSE 0),
        Num(DocLen[d]))

RECURSIVE TermProbProduct(_, _)
TermProbProduct(query, d) ==
    IF query = <<>> THEN One
    ELSE Mul(TermProb(Head(query), d), TermProbProduct(Tail(query), d))

\* the last operation was score(d, query), with the document and every query
\* term in the scorer's caches
LastScoreCached ==
    /\ last.op = "score"
    /\ last.d \in DOMAIN scorer[1].doc_sim_sum
    /\ \A i \in DOMAIN last.query :
           Id2Token[last.query[i]] \in DOMAIN scorer[1].col_Nt

\* C6: with lamb = 1 and alph = beta = 0 the score is the sum of the
\* logarithms of P_term over the query terms (stated where every P_term
\* is positive, so that the sum is defined).
C6_ScoreReducesToTermLikelihood ==
    (/\ LastScoreCached
     /\ scorer[1].lamb = One /\ scorer[1].alph = Zero /\ scorer[1].beta = Zero
     /\ \A i \in DOMAIN last.query : TermProb(last.query[i], last.d).n > 0)
        => (last.err = "none" /\ last.p = TermProbProduct(last.query, last.d))

\* C7: a document with one retained term has cohesion sum 0, and its
\* document transform is defined (no division by that zero).
C7_SingleTermDocumentTransformDefined ==
    (/\ LastScoreCached
     /\ last.query # <<>>
     /\ Len(FilterDoc(DocStream[last.d])) = 1)
        => /\ scorer[1].doc_sim_sum[last.d] = Zero
           /\ IsFinite(compute_doc_transform(scorer[1], last.query[1], last.d))

\* C8: a call of score() changes neither the scorer nor any of its inputs.
C8_ScoreChangesNoState ==
    [][last'.op = "score" =>
          /\ inverted_index' = inverted_index
          /\ col_freq' = col_freq
          /\ scorer' = scorer
          /\ doc_sim_file' = doc_sim_file
          /\ col_nt_file' = col_nt_file]_vars

\* sum over the distinct retained terms w of the document of
\* similarity(w, t) * frequency(w, d), over doc_sim_sum[d] * doc_len[d]
DistinctTermTransform(sc, t, d) ==
    LET arr == FilterDoc(DocStream[d])
        distinct == {arr[i] : i \in DOMAIN arr}
    IN  Div(SumFn([w \in distinct |->
                     Mul(cos_sim(Vec[Id2Token[w]], Vec[Id2Token[t]]),
                         Num(Count(arr, w)))]),
            Mul(sc.doc_sim_sum[d], Num(DocLen[d])))

\* C9: the document transform counts each distinct term of the document
\* once, weighted by its frequency.
C9_DocTransformOncePerDistinctTerm ==
    (LastScoreCached /\ last.query # <<>>)
        => compute_doc_transform(scorer[1], last.query[1], last.d)
               = DistinctTermTransform(scorer[1], last.query[1], last.d)

\* C10: a run over the collection its scorer was constructed with never
\* scores a pair whose document or query terms are missing from the caches.
C10_RunOnConstructorCollectionFindsCacheKeys ==
    (LastRunSupplied /\ last.doc_col = <<scorer[1].doc_col>>) =>
        \A i \in DOMAIN last.calls :
            /\ last.calls[i].d \in DOMAIN scorer[1].doc_sim_sum
            /\ \A j \in DOMAIN Queries[last.calls[i].q] :
                   Id2Token[Queries[last.calls[i].q][j]] \in DOMAIN scorer[1].col_Nt
            /\ last.calls[i].err # "KeyError"

=============================================================================
